---- MODULE Spec2Model ----
(***************************************************************************)
(* Model of modules/aws.py of iceshelf: the chunked multipart upload to    *)
(* glacier (uploadFiles, uploadFile, hashFile, awsCommand).                *)
(*                                                                         *)
(* The code is Python 2 (from Queue import Queue): size / 10000 is floor   *)
(* division on integers.  Byte counts of large files exceed the 32-bit     *)
(* integers of the model checker, so the chunk size derivation works on    *)
(* wide numbers [hi, lo] that stand for hi * 1024**2 + lo with             *)
(* 0 <= lo < 1024**2; every arithmetic step of the code is carried out     *)
(* exactly on that representation.                                         *)
(*                                                                         *)
(* Line 255 of the source lacks a closing parenthesis after len(files);    *)
(* the call is modelled as uploadFile(config, prefix, file, tmp, d, bytes).*)
(* stdout is taken not to be a terminal (the progress text of lines        *)
(* 183-185, 207-209, 224-229 is not modelled).                             *)
(***************************************************************************)
EXTENDS Integers, Sequences, FiniteSets, TLC

\* 1024**2, the physical block size and minimum chunk size
MiB == 1048576

\* the provider's limit on the parts of one upload (size / 10000)
PartCap == 10000

\* retry = 10
Retries == 10

\* time.sleep((10-retry) * 30)
BackoffUnit == 30

\* largest multiple of PartCap MiB around which planned file sizes are drawn
MaxPlanK == 8

\* planned file sizes are also drawn around PartCap * 2^k MiB up to this k
MaxPlanExp == 16

-----------------------------------------------------------------------------
(* Wide non-negative integers: [hi, lo] is hi * MiB + lo, 0 <= lo < MiB.   *)

Wide(h, l) == [hi |-> h, lo |-> l]

RECURSIVE BitOr(_, _)
BitOr(a, b) ==
  IF a = 0 THEN b
  ELSE IF b = 0 THEN a
  ELSE (IF a % 2 = 1 \/ b % 2 = 1 THEN 1 ELSE 0) + 2 * BitOr(a \div 2, b \div 2)

RECURSIVE Pow2(_)
Pow2(k) == IF k = 0 THEN 1 ELSE 2 * Pow2(k - 1)

\* x >> k for 0 <= k <= 20
ShrW(x, k) ==
  Wide(x.hi \div Pow2(k),
       (x.hi % Pow2(k)) * Pow2(20 - k) + (x.lo \div Pow2(k)))

\* x | y
OrW(x, y) == Wide(BitOr(x.hi, y.hi), BitOr(x.lo, y.lo))

\* x - 1 for x > 0
DecW(x) == IF x.lo = 0 THEN Wide(x.hi - 1, MiB - 1) ELSE Wide(x.hi, x.lo - 1)

\* x + 1
IncW(x) == IF x.lo = MiB - 1 THEN Wide(x.hi + 1, 0) ELSE Wide(x.hi, x.lo + 1)

\* x <= y
LeqW(x, y) == x.hi < y.hi \/ (x.hi = y.hi /\ x.lo <= y.lo)

\* size / 10000 (floor).  With hi = 10000*a + b and MiB = 10000*104 + 8576:
\* (hi*MiB + lo) div 10000 = a*MiB + 104*b + (8576*b + lo) div 10000,
\* and the last two terms are below MiB.
DivCapW(x) ==
  LET a == x.hi \div PartCap
      b == x.hi % PartCap
  IN  Wide(a, (MiB \div PartCap) * b + ((MiB % PartCap) * b + x.lo) \div PartCap)

\* math.ceil(float(chunkSize) / float(1024**2))
CeilMiB(x) == x.hi + (IF x.lo > 0 THEN 1 ELSE 0)

\* chunkSize |= chunkSize >> k
SmearStep(x, k) == OrW(x, ShrW(x, k))

\* variant of RoundUpPow2: the step chunkSize |= chunkSize >> 16 is missing
RoundUpPow2Short(x) ==
  IncW(SmearStep(SmearStep(SmearStep(SmearStep(DecW(x), 1), 2), 4), 8))

\* lines 155-161: round up to a power of two
RoundUpPow2(x) ==
  IncW(SmearStep(SmearStep(SmearStep(SmearStep(SmearStep(DecW(x), 1), 2), 4), 8), 16))

\* lines 148-161 of uploadFile: the chunk size derived from the file size
ChunkSizeOf(size) ==
  LET chunkSize == DivCapW(size)
  IN  IF LeqW(chunkSize, Wide(1, 0))
      THEN Wide(1, 0)
      ELSE RoundUpPow2(Wide(CeilMiB(chunkSize), 0))


\* x + y
AddW(x, y) ==
  IF x.lo + y.lo >= MiB
  THEN Wide(x.hi + y.hi + 1, x.lo + y.lo - MiB)
  ELSE Wide(x.hi + y.hi, x.lo + y.lo)

\* x - y for y <= x
SubW(x, y) ==
  IF x.lo >= y.lo
  THEN Wide(x.hi - y.hi, x.lo - y.lo)
  ELSE Wide(x.hi - y.hi - 1, x.lo + MiB - y.lo)

\* x > 0
PosW(x) == x.hi > 0 \/ x.lo > 0

-----------------------------------------------------------------------------
(* hashFile.  A digest is modelled by the data it was computed from:       *)
(* <<"L", j, n>> is sha256 of the n bytes of the j-th 1 MiB block of the   *)
(* file, <<"N", l, r>> is sha256 of the concatenated digests l and r.      *)

\* h(data) for the j-th block read by f.read(1024**2), n bytes long
BlockDigest(j, n) == <<"L", j, n>>

\* h(h1.digest() + h2.digest())
PairDigest(h1, h2) == <<"N", h1, h2>>

\* h(b"")
EmptyDigest == <<"L", 0, 0>>

\* no digest: hashes is None, or a call without --checksum
NoDigest == << "None" >>

\* .hexdigest()
HexDigest(h) == <<"hex", h>>

\* lines 108-114: one digest per 1 MiB block read
ReadBlocks(size) ==
  [j \in 1..CeilMiB(size) |->
     BlockDigest(j - 1, IF j - 1 < size.hi THEN MiB ELSE size.lo)]

\* variant of PairUp: an odd trailing node is paired with itself
PairUpOddDoubled(hashlist) ==
  LET n == Len(hashlist)
      pairs == [k \in 1..(n \div 2) |->
                  PairDigest(hashlist[2 * k - 1], hashlist[2 * k])]
  IN  IF n % 2 = 1
      THEN Append(pairs, PairDigest(hashlist[n], hashlist[n]))
      ELSE pairs

\* lines 123-126: pair adjacent nodes, carry an odd trailing node forward
PairUp(hashlist) ==
  LET n == Len(hashlist)
      pairs == [k \in 1..(n \div 2) |->
                  PairDigest(hashlist[2 * k - 1], hashlist[2 * k])]
  IN  IF n % 2 = 1 THEN Append(pairs, hashlist[n]) ELSE pairs

\* variant of AtChunkSize: the level below the chunk size is stored
AtChunkSizeBelow(size, chunkSize) == AddW(size, size) = chunkSize

\* line 119: the nodes of this level cover chunkSize bytes each
AtChunkSize(size, chunkSize) == size = chunkSize

\* lines 117-131: recurse(hashlist, size), with the nodes appended to final
RECURSIVE recurse(_, _, _)
recurse(hashlist, size, chunkSize) ==
  LET captured == IF AtChunkSize(size, chunkSize) THEN hashlist ELSE << >>
      output == PairUp(hashlist)
  IN  IF Len(output) > 1
      THEN LET r == recurse(output, AddW(size, size), chunkSize)
           IN  [blocks |-> captured \o r.blocks, final |-> r.final]
      ELSE [blocks |-> captured, final |-> output[1]]

\* hashFile without the h(b"") that stands in for an empty block list
hashFileNoEmptyBlock(size, chunkSize) ==
  LET blocks == ReadBlocks(size)
  IN  IF Len(blocks) > 0
      THEN recurse(blocks, Wide(1, 0), chunkSize)
      ELSE [blocks |-> << >>, final |-> NoDigest]

\* lines 104-135 of hashFile, for a file that exists
hashFile(size, chunkSize) ==
  LET blocks == ReadBlocks(size)
  IN  recurse(IF Len(blocks) > 0 THEN blocks ELSE << EmptyDigest >>,
              Wide(1, 0), chunkSize)

-----------------------------------------------------------------------------
(* awsCommand and the answers of the aws process.                          *)

\* the most 1 MiB blocks a file of a batch holds
MaxBlocks == 2

\* the most files of a batch
MaxFiles == 2

\* jout: None, or the parsed dictionary as a set of <<key, value>> pairs
JsonNone == [none |-> TRUE, dict |-> {}]

JsonDict(d) == [none |-> FALSE, dict |-> d]

\* lines 275-279: json.loads(out), None when out does not parse
JsonLoads(out) == IF out.parses THEN JsonDict(out.dict) ELSE JsonNone

\* key in json, for a json that is not None
HasKey(json, key) == \E p \in json.dict : p[1] = key

\* json[key]
ValueOf(json, key) == (CHOOSE p \in json.dict : p[1] = key)[2]

\* the None returned by line 264
NoneResult == [none |-> TRUE, code |-> 0, json |-> JsonNone, error |-> ""]

\* lines 261-285: awsCommand, proc is what the aws process answers
awsCommand(glacierVault, proc) ==
  IF glacierVault = "None"
  THEN NoneResult
  ELSE [none |-> FALSE, code |-> proc.returncode,
        json |-> JsonLoads(proc.out), error |-> proc.err]

\* output that is not JSON (empty or an error text)
NoJsonOut == [parses |-> FALSE, dict |-> {}]

JsonOut(d) == [parses |-> TRUE, dict |-> d]

Proc(c, o, e) == [returncode |-> c, out |-> o, err |-> e]

\* what the aws process may answer to initiate-multipart-upload
InitiateAnswers ==
  { Proc(c, o, "") :
      c \in {0, 255},
      o \in {NoJsonOut, JsonOut({}), JsonOut({<<"uploadId", "uid">>})} }

\* a checksum that is the digest of no part of the file
BogusChecksum == HexDigest(<<"L", 0 - 1, 0>>)

\* what the aws process may answer to upload-multipart-part
PartAnswers(leaves) ==
  { Proc(0, JsonOut({<<"checksum", c>>}), "") :
      c \in {HexDigest(leaves[k]) : k \in DOMAIN leaves} \cup {BogusChecksum} }
  \cup { Proc(0, JsonOut({}), ""),
         Proc(255, NoJsonOut, "RequestTimeoutException"),
         Proc(255, NoJsonOut, "ServiceUnavailableException") }

\* what the aws process may answer to complete-multipart-upload
CommitAnswers ==
  { Proc(c, o, "") :
      c \in {0, 255},
      o \in {NoJsonOut, JsonOut({<<"archiveId", "aid">>})} }

-----------------------------------------------------------------------------
(* The files of a batch.                                                   *)

\* state "present": the file exists; "missing": it does not (line 138);
\* "removed": it exists at line 138 and is gone when hashFile looks (line 101)
File(st, sz) == [state |-> st, size |-> sz]

FileSizes ==
  { Wide(n, 0) : n \in 0..MaxBlocks } \cup { Wide(MaxBlocks - 1, 1) }

FileSet ==
  { File("present", sz) : sz \in FileSizes }
  \cup { File("missing", Wide(0, 0)), File("removed", Wide(1, 0)) }

RECURSIVE Batches(_)
Batches(n) ==
  IF n = 0 THEN { << >> }
  ELSE LET shorter == Batches(n - 1)
       IN  shorter \cup { Append(b, f) : b \in { s \in shorter : Len(s) = n - 1 },
                                       f \in FileSet }

-----------------------------------------------------------------------------
VARIABLES
  vault,          \* config["glacier-vault"], "None" when unset
  files,          \* the files of the batch, in the given order
  pc,             \* where uploadFiles / uploadFile stands
  tmpExists,      \* whether the temporary file tmp exists
  i,              \* uploadFiles: number of the file being uploaded
  d,              \* uploadFiles: bytes of the files uploaded so far
  size,           \* uploadFile: size of the file
  remain,         \* uploadFile: bytes still to send
  chunkSize,      \* uploadFile: the part size
  hashes,         \* uploadFile: result of hashFile
  uploadId,       \* uploadFile: the upload identifier
  offset,         \* uploadFile: offset of the part being sent
  block,          \* uploadFile: number of parts completed
  chunk,          \* uploadFile: bytes of the part being sent
  retry,          \* uploadFile: attempts left for the part being sent
  result,         \* uploadFile: the last result of awsCommand
  ret,            \* what uploadFiles returned ("none" while it runs)
  fileRet,        \* per file: what uploadFile returned
  initiateCalls,  \* per file: initiate-multipart-upload calls made
  partsTried,     \* per file: parts for which upload-multipart-part was called
  commitCalls,    \* per file: complete-multipart-upload calls made
  attempts,       \* upload-multipart-part calls made for the current part
  slept,          \* seconds of the last time.sleep of the current part, 0 if none
  retried,        \* whether a completed part of the file took several attempts
  tmpData,        \* the bytes held by the temporary file, as a range of the file
  dataRange,      \* uploadFile: the --range of the part being sent
  extracted,      \* the ranges extracted for the parts of the file so far
  call,           \* the last aws command issued, with its arguments
  planSize,       \* chunk planning on its own: the file size
  planChunk       \* chunk planning on its own: the derived part size

vars == << vault, files, pc, tmpExists, i, d, size, remain, chunkSize, hashes,
           uploadId, offset, block, chunk, retry, result, ret, fileRet,
           initiateCalls, partsTried, commitCalls, attempts, slept,
           retried, tmpData, dataRange, extracted, call, planSize, planChunk >>

batchVars == << vault, files, pc, tmpExists, i, d, ret, fileRet >>

fileVars == << size, remain, chunkSize, hashes, uploadId >>

partVars == << offset, block, chunk, retry, attempts, slept, retried,
              dataRange, extracted >>

callVars == << initiateCalls, partsTried, commitCalls >>

planVars == << planSize, planChunk >>

NoHashes == [blocks |-> << >>, final |-> NoDigest]

\* the bytes from (inclusive) up to to (exclusive) of the file
Range(from, to) == [from |-> from, to |-> to]

NoRange == Range(Wide(0, 0), Wide(0, 0))

\* line 196: 'bytes %d-%d/*' % (offset, offset + chunk - 1)
DataRange(off, len) == [first |-> off, last |-> DecW(AddW(off, len))]

NoDataRange == [first |-> Wide(0, 0), last |-> Wide(0, 0)]

\* variant of extractChunk: the seek to offset is missing
extractChunkNoSeek(fileSize, off, n) ==
  Range(Wide(0, 0), IF LeqW(n, fileSize) THEN n ELSE fileSize)

\* lines 92-98: seek(offset) and read(size), which stops at the end of the
\* file; what is read replaces the content of tmp
extractChunk(fileSize, off, n) ==
  Range(off, IF LeqW(AddW(off, n), fileSize) THEN AddW(off, n) ELSE fileSize)

\* an aws command with its arguments
Call(cmd, id, ps, rg, cs, sz) ==
  [cmd |-> cmd, uploadId |-> id, partSize |-> ps, range |-> rg,
   checksum |-> cs, archiveSize |-> sz]

NoCall ==
  Call("", "", Wide(0, 0), NoDataRange, HexDigest(NoDigest), Wide(0, 0))

\* the locals of uploadFile while uploadFile does not run
NoLocals ==
  /\ size = Wide(0, 0)
  /\ remain = Wide(0, 0)
  /\ chunkSize = Wide(1, 0)
  /\ hashes = NoHashes
  /\ uploadId = ""
  /\ offset = Wide(0, 0)
  /\ block = 0
  /\ chunk = Wide(0, 0)
  /\ retry = Retries
  /\ attempts = 0
  /\ slept = 0
  /\ retried = FALSE
  /\ dataRange = NoDataRange
  /\ extracted = << >>

\* uploadFile returns: its locals are gone
DropLocals ==
  /\ size' = Wide(0, 0)
  /\ remain' = Wide(0, 0)
  /\ chunkSize' = Wide(1, 0)
  /\ hashes' = NoHashes
  /\ uploadId' = ""
  /\ offset' = Wide(0, 0)
  /\ block' = 0
  /\ chunk' = Wide(0, 0)
  /\ retry' = Retries
  /\ attempts' = 0
  /\ slept' = 0
  /\ retried' = FALSE
  /\ dataRange' = NoDataRange
  /\ extracted' = << >>

Init ==
  /\ vault \in {"glacier", "None"}
  /\ files \in { b \in Batches(MaxFiles) : Len(b) > 0 }
  /\ pc = "start"
  /\ tmpExists = FALSE
  /\ i = 0
  /\ d = Wide(0, 0)
  /\ NoLocals
  /\ tmpData = NoRange
  /\ call = NoCall
  /\ result = NoneResult
  /\ ret = "none"
  /\ fileRet = [f \in 1..Len(files) |-> "none"]
  /\ initiateCalls = [f \in 1..Len(files) |-> 0]
  /\ partsTried = [f \in 1..Len(files) |-> 0]
  /\ commitCalls = [f \in 1..Len(files) |-> 0]
  /\ planSize = Wide(0, 0)
  /\ planChunk = Wide(0, 0)

-----------------------------------------------------------------------------
(* uploadFiles and uploadFile.                                             *)

\* variant of FileFails: the loop of uploadFiles goes on after a failed file
FileFailsContinue(f) ==
  /\ fileRet' = [fileRet EXCEPT ![f] = "False"]
  /\ pc' = "loop"
  /\ UNCHANGED << tmpExists, d, ret >>

\* line 256: uploadFile returned False, uploadFiles returns False
FileFails(f) ==
  /\ fileRet' = [fileRet EXCEPT ![f] = "False"]
  /\ ret' = "False"
  /\ pc' = "returned"
  /\ UNCHANGED << tmpExists, d >>

\* an exception raised in uploadFile leaves uploadFile and uploadFiles
FileRaises(f) ==
  /\ fileRet' = [fileRet EXCEPT ![f] = "raised"]
  /\ ret' = "raised"
  /\ pc' = "raised"
  /\ UNCHANGED << tmpExists, d >>

\* lines 243-251: the temporary file is created
UploadFilesStart ==
  /\ pc = "start"
  /\ tmpExists' = TRUE
  /\ tmpData' = NoRange
  /\ i' = 0
  /\ d' = Wide(0, 0)
  /\ pc' = "loop"
  /\ UNCHANGED << vault, files, ret, fileRet >>
  /\ UNCHANGED << fileVars, partVars, callVars, planVars, result, call >>

\* variant of Exists: the test of line 138 always succeeds
ExistsAlways(file) == TRUE

\* line 138: os.path.exists(file)
Exists(file) == file.state # "missing"

\* lines 252-255, 138-167: the next file is taken and uploadFile runs up to
\* the initiate call
UploadFileEnter ==
  /\ pc = "loop"
  /\ i < Len(files)
  /\ i' = i + 1
  /\ LET file == files[i + 1]
     IN  IF ~ Exists(file)
         THEN /\ FileFails(i + 1)
              /\ UNCHANGED fileVars
         ELSE /\ size' = file.size
              /\ remain' = file.size
              /\ chunkSize' = ChunkSizeOf(file.size)
              /\ uploadId' = ""
              /\ IF file.state = "removed"
                 THEN /\ hashes' = NoHashes
                      /\ FileFails(i + 1)
                 ELSE /\ hashes' = hashFile(file.size, ChunkSizeOf(file.size))
                      /\ pc' = "initiate"
                      /\ UNCHANGED << tmpExists, d, ret, fileRet >>
  /\ UNCHANGED << vault, files, partVars, callVars, planVars, result >>
  /\ UNCHANGED << tmpData, call >>

\* lines 258-259: every file was uploaded
UploadFilesDone ==
  /\ pc = "loop"
  /\ i = Len(files)
  /\ tmpExists' = FALSE
  /\ ret' = "True"
  /\ pc' = "returned"
  /\ UNCHANGED << vault, files, i, d, fileRet >>
  /\ UNCHANGED << fileVars, partVars, callVars, planVars, result >>
  /\ UNCHANGED << tmpData, call >>

\* lines 170-178: the initiate call
Initiate ==
  /\ pc = "initiate"
  /\ \E proc \in InitiateAnswers :
       LET r == awsCommand(vault, proc)
       IN  /\ result' = r
           /\ call' = Call("initiate-multipart-upload", "", chunkSize,
                           NoDataRange, HexDigest(NoDigest), Wide(0, 0))
           /\ initiateCalls' = [initiateCalls EXCEPT ![i] = @ + 1]
           /\ IF r.none \/ r.code # 0
              THEN /\ FileFails(i)
                   /\ UNCHANGED << uploadId, offset, block >>
              ELSE IF r.json.none
              THEN \* 'uploadId' not in None raises TypeError
                   /\ FileRaises(i)
                   /\ UNCHANGED << uploadId, offset, block >>
              ELSE IF ~ HasKey(r.json, "uploadId")
              THEN /\ FileFails(i)
                   /\ UNCHANGED << uploadId, offset, block >>
              ELSE /\ uploadId' = ValueOf(r.json, "uploadId")
                   /\ offset' = Wide(0, 0)
                   /\ block' = 0
                   /\ pc' = "part"
                   /\ UNCHANGED << tmpExists, d, ret, fileRet >>
  /\ UNCHANGED << vault, files, i, size, remain, chunkSize, hashes >>
  /\ UNCHANGED << chunk, retry, attempts, slept, retried >>
  /\ UNCHANGED << tmpData, dataRange, extracted >>
  /\ UNCHANGED << partsTried, commitCalls, planVars >>

\* variant of MoreToSend: the loop stops when no full chunk is left
MoreToSendFullChunk == ~ LeqW(remain, chunkSize)

\* line 186: while remain > 0
MoreToSend == PosW(remain)

\* variant of PartLoop: retry is not set anew for each part
PartLoopKeepRetry ==
  /\ pc = "part"
  /\ IF MoreToSend
     THEN /\ chunk' = IF LeqW(remain, chunkSize) THEN remain ELSE chunkSize
          /\ tmpData' = extractChunk(size, offset, chunkSize)
          /\ extracted' = Append(extracted, tmpData')
          /\ dataRange' = DataRange(offset, chunk')
          /\ retry' = retry
          /\ attempts' = 0
          /\ slept' = 0
          /\ pc' = "attempt"
     ELSE /\ pc' = "commit"
          /\ UNCHANGED << chunk, retry, attempts, slept >>
          /\ UNCHANGED << tmpData, extracted, dataRange >>
  /\ UNCHANGED << vault, files, tmpExists, i, d, ret, fileRet >>
  /\ UNCHANGED << fileVars, offset, block, retried, callVars, planVars, result >>
  /\ UNCHANGED call

\* lines 186-197: the head of the part loop, the chunk is extracted
PartLoop ==
  /\ pc = "part"
  /\ IF MoreToSend
     THEN /\ chunk' = IF LeqW(remain, chunkSize) THEN remain ELSE chunkSize
          /\ tmpData' = extractChunk(size, offset, chunkSize)
          /\ extracted' = Append(extracted, tmpData')
          /\ dataRange' = DataRange(offset, chunk')
          /\ retry' = Retries
          /\ attempts' = 0
          /\ slept' = 0
          /\ pc' = "attempt"
     ELSE /\ pc' = "commit"
          /\ UNCHANGED << chunk, retry, attempts, slept >>
          /\ UNCHANGED << tmpData, extracted, dataRange >>
  /\ UNCHANGED << vault, files, tmpExists, i, d, ret, fileRet >>
  /\ UNCHANGED << fileVars, offset, block, retried, callVars, planVars, result >>
  /\ UNCHANGED call

\* variant of PartDone: block counts the attempts made
PartDoneCountsAttempts ==
  /\ block' = block + attempts'
  /\ remain' = SubW(remain, chunk)
  /\ offset' = AddW(offset, chunk)
  /\ retried' = (retried \/ attempts' > 1)
  /\ pc' = "part"
  /\ UNCHANGED << tmpExists, d, ret, fileRet >>

\* lines 221-223: the part is completed
PartDone ==
  /\ block' = block + 1
  /\ remain' = SubW(remain, chunk)
  /\ offset' = AddW(offset, chunk)
  /\ retried' = (retried \/ attempts' > 1)
  /\ pc' = "part"
  /\ UNCHANGED << tmpExists, d, ret, fileRet >>

\* variant of AfterRetryLoop: the test retry == 0 is missing
AfterRetryLoopNoCheck == PartDone

\* lines 218-223: after the retry loop
AfterRetryLoop ==
  IF retry = 0
  THEN /\ FileFails(i)
       /\ UNCHANGED << block, remain, offset, retried >>
  ELSE PartDone

\* variant of ChecksumOk: any checksum in the result is accepted
ChecksumPresent(r) == HasKey(r.json, "checksum")

\* lines 200-201: the result carries the checksum of the part being sent
ChecksumOk(r) ==
  HexDigest(hashes.blocks[block + 1]) = ValueOf(r.json, "checksum")

\* lines 199-214 and 218-223: one upload-multipart-part call
UploadPart ==
  /\ pc = "attempt"
  /\ \E proc \in PartAnswers(hashes.blocks) :
       LET r == awsCommand(vault, proc)
       IN  /\ result' = r
           /\ call' = Call("upload-multipart-part", uploadId, Wide(0, 0),
                           dataRange, HexDigest(NoDigest), Wide(0, 0))
           /\ partsTried' = [partsTried EXCEPT ![i] = block + 1]
           /\ attempts' = attempts + 1
           /\ IF ~ r.none /\ ~ r.json.none /\ HasKey(r.json, "checksum")
              THEN IF block + 1 > Len(hashes.blocks)
                   THEN \* hashes['blocks'][block] raises IndexError
                        /\ FileRaises(i)
                        /\ UNCHANGED << retry, block, remain, offset, retried >>
                   ELSE IF ~ ChecksumOk(r)
                   THEN /\ retry' = retry - 1
                        /\ pc' = "sleep"
                        /\ UNCHANGED << block, remain, offset, retried >>
                        /\ UNCHANGED << tmpExists, d, ret, fileRet >>
                   ELSE \* break
                        /\ AfterRetryLoop
                        /\ UNCHANGED retry
              ELSE IF r.none
              THEN \* result['error'] of None raises TypeError
                   /\ FileRaises(i)
                   /\ UNCHANGED << retry, block, remain, offset, retried >>
              ELSE /\ retry' = retry - 1
                   /\ pc' = "sleep"
                   /\ UNCHANGED << block, remain, offset, retried >>
                   /\ UNCHANGED << tmpExists, d, ret, fileRet >>
  /\ UNCHANGED << vault, files, i, size, chunkSize, hashes, uploadId >>
  /\ UNCHANGED << chunk, slept, initiateCalls, commitCalls, planVars >>
  /\ UNCHANGED << tmpData, dataRange, extracted >>

\* lines 215-216 and 198, 218-223: the wait after a failed attempt, then the
\* loop test
Backoff ==
  /\ pc = "sleep"
  /\ slept' = (Retries - retry) * BackoffUnit
  /\ UNCHANGED << vault, files, i >>
  /\ UNCHANGED << size, chunkSize, hashes, uploadId, chunk, retry, attempts >>
  /\ UNCHANGED << callVars, planVars, result >>
  /\ UNCHANGED << tmpData, dataRange, extracted, call >>
  /\ IF retry > 0
     THEN /\ pc' = "attempt"
          /\ UNCHANGED << tmpExists, d, ret, fileRet >>
          /\ UNCHANGED << block, remain, offset, retried >>
     ELSE AfterRetryLoop

\* variant of CommitOk: the status code is not looked at
CommitOkAnyCode(r) == ~ r.none

\* line 232: the commit call succeeded
CommitOk(r) == ~ r.none /\ r.code = 0

\* lines 231-238 and 257: the commit call
Commit ==
  /\ pc = "commit"
  /\ \E proc \in CommitAnswers :
       LET r == awsCommand(vault, proc)
       IN  /\ result' = r
           /\ call' = Call("complete-multipart-upload", uploadId, Wide(0, 0),
                           NoDataRange, HexDigest(hashes.final), size)
           /\ commitCalls' = [commitCalls EXCEPT ![i] = @ + 1]
           /\ IF ~ CommitOk(r)
              THEN /\ FileFails(i)
                   /\ UNCHANGED << fileVars, partVars >>
              ELSE \* uploadFile returns True and its locals are gone
                   /\ fileRet' = [fileRet EXCEPT ![i] = "True"]
                   /\ d' = AddW(d, size)
                   /\ pc' = "loop"
                   /\ DropLocals
                   /\ UNCHANGED << tmpExists, ret >>
  /\ UNCHANGED << vault, files, i, tmpData >>
  /\ UNCHANGED << initiateCalls, partsTried, planVars >>

Next ==
  \/ UploadFilesStart
  \/ UploadFileEnter
  \/ UploadFilesDone
  \/ Initiate
  \/ PartLoop
  \/ UploadPart
  \/ Backoff
  \/ Commit

Spec == Init /\ [][Next]_vars

\* the program is sequential and every call and every sleep returns, so a
\* step that is possible is taken
SpecFair == Spec /\ WF_vars(Next)

-----------------------------------------------------------------------------
(* The chunk size derivation on its own, for file sizes around the         *)
(* multiples of 10000 MiB.                                                 *)

PlanSizes ==
  { Wide(h, l) :
      h \in ({ PartCap * k + e : k \in 0..MaxPlanK, e \in {0 - 1, 0, 1} }
             \cup { PartCap * Pow2(k) + e : k \in 0..MaxPlanExp, e \in {0 - 1, 0, 1} })
            \cap Nat,
      l \in {0, 1, MiB - 1} }

InitPlan ==
  /\ vault = "glacier"
  /\ files = << >>
  /\ pc = "plan"
  /\ tmpExists = FALSE
  /\ i = 0
  /\ d = Wide(0, 0)
  /\ NoLocals
  /\ tmpData = NoRange
  /\ call = NoCall
  /\ result = NoneResult
  /\ ret = "none"
  /\ fileRet = << >>
  /\ initiateCalls = << >>
  /\ partsTried = << >>
  /\ commitCalls = << >>
  /\ planSize \in PlanSizes
  /\ planChunk = Wide(0, 0)

\* lines 145-161: size = os.path.getsize(file) and the chunk size follows
Plan ==
  /\ pc = "plan"
  /\ planChunk' = ChunkSizeOf(planSize)
  /\ pc' = "planned"
  /\ UNCHANGED << vault, files, tmpExists, i, d, ret, fileRet, planSize >>
  /\ UNCHANGED << fileVars, partVars, callVars, result, tmpData, call >>

NextPlan == Plan

SpecPlan == InitPlan /\ [][NextPlan]_vars

-----------------------------------------------------------------------------
(* hashFile on its own: for small files with every chunk size up to        *)
(* 2^MaxHashExp MiB, and for files of about MaxHashK * 10000 MiB with the  *)
(* chunk size that uploadFile derives for them.                            *)

\* the most 1 MiB blocks of the small files hashed
MaxHashBlocks == 8

\* the small files are hashed with chunk sizes of 2^k MiB up to this k
MaxHashExp == 3

\* the large files hashed have about k * 10000 MiB up to this k
MaxHashK == 1

HashInputs ==
  { << Wide(n, l), Wide(Pow2(k), 0) >> :
      n \in 0..MaxHashBlocks, l \in {0, 1}, k \in 0..MaxHashExp }
  \cup { << Wide(PartCap * k + e, l), ChunkSizeOf(Wide(PartCap * k + e, l)) >> :
           k \in 1..MaxHashK, e \in {0, 1}, l \in {0, 1} }

InitHash ==
  /\ vault = "glacier"
  /\ files = << >>
  /\ pc = "hash"
  /\ tmpExists = FALSE
  /\ i = 0
  /\ d = Wide(0, 0)
  /\ \E in \in HashInputs :
       /\ size = in[1]
       /\ chunkSize = in[2]
  /\ remain = Wide(0, 0)
  /\ hashes = NoHashes
  /\ uploadId = ""
  /\ offset = Wide(0, 0)
  /\ block = 0
  /\ chunk = Wide(0, 0)
  /\ retry = Retries
  /\ attempts = 0
  /\ slept = 0
  /\ retried = FALSE
  /\ dataRange = NoDataRange
  /\ extracted = << >>
  /\ tmpData = NoRange
  /\ call = NoCall
  /\ result = NoneResult
  /\ ret = "none"
  /\ fileRet = << >>
  /\ initiateCalls = << >>
  /\ partsTried = << >>
  /\ commitCalls = << >>
  /\ planSize = Wide(0, 0)
  /\ planChunk = Wide(0, 0)

\* line 164: hashes = hashFile(file, chunkSize), for a file that exists
Hash ==
  /\ pc = "hash"
  /\ hashes' = hashFile(size, chunkSize)
  /\ pc' = "hashed"
  /\ UNCHANGED << vault, files, tmpExists, i, d, ret, fileRet >>
  /\ UNCHANGED << size, remain, chunkSize, uploadId, partVars, callVars >>
  /\ UNCHANGED << result, tmpData, call, planVars >>

NextHash == Hash

SpecHash == InitHash /\ [][NextHash]_vars

-----------------------------------------------------------------------------
(* Properties.                                                             *)

\* ceil(size / chunkSize) for a chunk size that is a whole number of MiB
PartCount(sz, cs) ==
  (sz.hi \div cs.hi) + (IF sz.hi % cs.hi > 0 \/ sz.lo > 0 THEN 1 ELSE 0)

\* C1: for every file size the derived chunk size keeps the number of parts
\* within the cap, ceil(size / chunkSize) <= 10000.
C1_PartCountWithinCap ==
  pc = "planned" => PartCount(planSize, planChunk) <= PartCap

\* C2: a file of 10000 MiB is planned with chunk size 1 MiB and a file of
\* 10000 MiB + 1 byte with chunk size 2 MiB.
C2_BoundaryPlan ==
  pc = "planned" =>
    /\ (planSize = Wide(PartCap, 0) => planChunk = Wide(1, 0))
    /\ (planSize = Wide(PartCap, 1) => planChunk = Wide(2, 0))


\* the result r carries the checksum of part b of the file being uploaded
Matches(r, b) ==
  /\ ~ r.none
  /\ ~ r.json.none
  /\ HasKey(r.json, "checksum")
  /\ b + 1 \in DOMAIN hashes.blocks
  /\ ValueOf(r.json, "checksum") = HexDigest(hashes.blocks[b + 1])

\* the part being sent is not the last part of the file
MorePartsFollow == LeqW(chunk, remain) /\ chunk # remain

\* C3: the temporary file does not exist when uploadFiles has returned,
\* with success or with failure.
C3_TmpRemovedOnReturn ==
  pc = "returned" => ~ tmpExists

\* C4: when all 10 attempts of a part have failed, uploadFile returns False,
\* no later part is attempted and no commit call is made for the file.
C4_ExhaustedPartFailsFile ==
  /\ [](retry = 0 =>
          /\ pc \in {"sleep", "returned"}
          /\ attempts = Retries
          /\ commitCalls[i] = 0
          /\ partsTried[i] = block + 1
          /\ (pc = "returned" => fileRet[i] = "False" /\ ret = "False"))
  /\ [][(pc = "attempt" /\ attempts = Retries - 1 /\ ~ Matches(result', block))
          => retry' = 0]_vars
  /\ [][retry = 0 =>
          /\ retry' = 0
          /\ pc' = "returned"
          /\ block' = block
          /\ callVars' = callVars]_vars

C4_Witness ==
  /\ pc = "returned"
  /\ retry = 0
  /\ fileRet[i] = "False"
  /\ result.error = "RequestTimeoutException"
  /\ MorePartsFollow

\* C5: block and offset advance only in an attempt whose result carries the
\* checksum of the part being sent, on first attempts and on retries alike;
\* an attempt with a wrong or missing checksum leaves them unchanged.
C5_AdvanceOnlyOnMatchingChecksum ==
  /\ [][(block' > block \/ (offset' # offset /\ LeqW(offset, offset')))
          => /\ pc = "attempt"
             /\ Matches(result', block)
             /\ block' = block + 1
             /\ offset' = AddW(offset, chunk)]_vars
  /\ [][(pc = "attempt" /\ ~ Matches(result', block))
          => block' = block /\ offset' = offset /\ remain' = remain]_vars

C5_Witness ==
  /\ pc = "part"
  /\ block = 2
  /\ attempts > 1
  /\ Matches(result, 1)

\* C6: between 1 and 10 upload-multipart-part calls are made for a part;
\* each part starts with the full budget of 10 whatever failed before, and a
\* matching checksum in the 10th attempt completes the part.
C6_AttemptsPerPart ==
  /\ [](/\ attempts \in 0..Retries
        /\ (pc = "attempt" => retry = Retries - attempts /\ attempts < Retries)
        /\ (pc = "sleep" => attempts >= 1))
  /\ [][block' = block + 1 => attempts' \in 1..Retries]_vars
  /\ [][(pc = "attempt" /\ attempts = Retries - 1 /\ Matches(result', block))
          => block' = block + 1 /\ pc' = "part"]_vars

C6_Witness ==
  /\ pc = "part"
  /\ retried
  /\ block = 2
  /\ attempts = Retries


\* C7: a wait happens only between a failed attempt k and attempt k+1 and
\* lasts 30 * k seconds, at most 270; every wait is followed by an attempt.
C7_BackoffOnlyBetweenAttempts ==
  /\ slept \in { BackoffUnit * k : k \in 0..(Retries - 1) }
  /\ ((attempts > 0 /\ slept = BackoffUnit * attempts) => pc = "attempt")

\* C8: uploadFiles takes the files in the given order and returns False at
\* the first file whose uploadFile returns False, with no remote call for a
\* later file; it returns True only if uploadFile returned True for every file.
C8_BatchStopsAtFirstFailure ==
  /\ [](\A f \in 1..Len(files) :
          /\ (f > i => /\ fileRet[f] = "none"
                       /\ initiateCalls[f] = 0
                       /\ partsTried[f] = 0
                       /\ commitCalls[f] = 0)
          /\ (f < i => fileRet[f] = "True")
          /\ (fileRet[f] = "False" => f = i /\ pc = "returned" /\ ret = "False"))
  /\ [](ret = "True" => \A f \in 1..Len(files) : fileRet[f] = "True")
  /\ [](ret = "False" => pc = "returned" /\ i > 0 /\ fileRet[i] = "False")
  /\ [][i' = i \/ (i' = i + 1 /\ pc = "loop")]_vars
  /\ [][pc = "returned" => pc' = "returned" /\ callVars' = callVars]_vars

C8_Witness ==
  /\ pc = "returned"
  /\ ret = "False"
  /\ i = 1
  /\ Len(files) = 2
  /\ files[2].state = "present"
  /\ partsTried[1] = 2
  /\ retry = 0

\* C9: at most one commit call is made for a file and it is not repeated;
\* uploadFile returns True exactly if the commit call gave a result with
\* status code 0, and False if the result is missing or the code is not 0.
C9_CommitOnceDecidesResult ==
  /\ [](\A f \in 1..Len(files) :
          /\ commitCalls[f] <= 1
          /\ (fileRet[f] = "True" => commitCalls[f] = 1))
  /\ [][commitCalls' # commitCalls =>
          /\ pc = "commit"
          /\ i' = i
          /\ commitCalls' = [commitCalls EXCEPT ![i] = 1]
          /\ pc' # "commit"
          /\ IF ~ result'.none /\ result'.code = 0
             THEN fileRet'[i] = "True"
             ELSE fileRet'[i] = "False" /\ pc' = "returned"]_vars

C9_Witness ==
  /\ pc = "returned"
  /\ ret = "False"
  /\ commitCalls[i] = 1
  /\ result.code # 0
  /\ block = 2

\* the result r of the initiate call is an error or carries no uploadId
BadInitiate(r) ==
  \/ r.none
  \/ r.code # 0
  \/ r.json.none
  \/ ~ HasKey(r.json, "uploadId")

\* C10: when the initiate call fails or its response carries no uploadId
\* (also when its output is not JSON), uploadFile returns False after that
\* one initiate call, without a part call or a commit call.
C10_InitiateFailureReturnsFalse ==
  [][(pc = "initiate" /\ BadInitiate(result'))
       => /\ fileRet'[i] = "False"
          /\ pc' = "returned"
          /\ initiateCalls'[i] = 1
          /\ partsTried'[i] = 0
          /\ commitCalls'[i] = 0]_vars


\* C11: for a file that does not exist, or that hashFile cannot hash,
\* uploadFile returns False and no initiate, part or commit call is made.
C11_MissingFileNoRemoteCall ==
  \A f \in 1..Len(files) :
    (f <= i /\ files[f].state # "present") =>
      /\ fileRet[f] = "False"
      /\ ret = "False"
      /\ pc = "returned"
      /\ initiateCalls[f] = 0
      /\ partsTried[f] = 0
      /\ commitCalls[f] = 0

C11_Witness ==
  /\ pc = "returned"
  /\ i = 2
  /\ files[2].state = "missing"
  /\ fileRet[1] = "True"
  /\ fileRet[2] = "False"


\* k * x
RECURSIVE TimesW(_, _)
TimesW(k, x) == IF k = 0 THEN Wide(0, 0) ELSE AddW(TimesW(k - 1, x), x)

\* the smaller of x and y
MinW(x, y) == IF LeqW(x, y) THEN x ELSE y

\* C12: the k-th part sent is the range from k*chunkSize up to
\* min((k+1)*chunkSize, size): the ranges extracted into the temporary file
\* are not empty, follow one another without gap or overlap, agree with the
\* --range of the call, and at the commit they make up the whole file.
C12_ExtractedRangesTileFile ==
  /\ \A k \in 1..Len(extracted) :
       /\ extracted[k].from = TimesW(k - 1, chunkSize)
       /\ extracted[k].to = MinW(TimesW(k, chunkSize), size)
       /\ extracted[k].from # extracted[k].to
       /\ (k > 1 => extracted[k].from = extracted[k - 1].to)
  /\ (pc \in {"attempt", "sleep"} =>
        /\ Len(extracted) = block + 1
        /\ tmpData = extracted[block + 1]
        /\ dataRange.first = tmpData.from
        /\ IncW(dataRange.last) = tmpData.to)
  /\ (pc = "commit" =>
        /\ Len(extracted) = PartCount(size, chunkSize)
        /\ (Len(extracted) = 0 => size = Wide(0, 0))
        /\ (Len(extracted) > 0 => /\ extracted[1].from = Wide(0, 0)
                                  /\ extracted[Len(extracted)].to = size))

C12_Witness ==
  /\ pc = "commit"
  /\ size = Wide(1, 1)
  /\ Len(extracted) = 2
  /\ tmpData = Range(Wide(1, 0), Wide(1, 1))


\* n is a power of two
IsPow2(n) == \E k \in 0..30 : n = Pow2(k)

\* C13: the derived chunk size is a power of two of at least 1 MiB, and it
\* is 1 MiB for every size up to 10000 MiB, the empty file included; the
\* derivation gives a chunk size for every size.
C13_ChunkSizePowerOfTwo ==
  pc = "planned" =>
    /\ planChunk.lo = 0
    /\ planChunk.hi >= 1
    /\ IsPow2(planChunk.hi)
    /\ (LeqW(planSize, Wide(PartCap, 0)) => planChunk = Wide(1, 0))

C13_Witness ==
  /\ pc = "planned"
  /\ planSize = Wide(3 * PartCap + 1, 0)
  /\ planChunk = Wide(4, 0)

\* the largest power of two below n, for n >= 2
SplitAt(n) == CHOOSE p \in { Pow2(k) : k \in 0..20 } : p < n /\ n <= 2 * p

\* the tree hash of the n block digests blocks[a], ..., blocks[a + n - 1],
\* top down: the left subtree takes the largest power of two below n
RECURSIVE TreeHash(_, _, _)
TreeHash(blocks, a, n) ==
  IF n = 1
  THEN blocks[a]
  ELSE PairDigest(TreeHash(blocks, a, SplitAt(n)),
                  TreeHash(blocks, a + SplitAt(n), n - SplitAt(n)))

\* the tree node over the blocks of part k (from 0) of a file with those
\* 1 MiB block digests, sent in parts of p MiB
LeafOf(blocks, p, k) ==
  LET rest == Len(blocks) - k * p
  IN  TreeHash(blocks, k * p + 1, IF rest < p THEN rest ELSE p)

\* C14: for a file that is not empty and a part size of 2^k MiB, hashFile
\* returns ceil(size / partSize) leaf digests, and leaf k is the tree node
\* over the 1 MiB blocks of the k-th part, also when the whole file fits in
\* one part larger than 1 MiB.
C14_OneLeafPerPart ==
  (pc = "hashed" /\ PosW(size)) =>
    LET blocks == ReadBlocks(size)
    IN  /\ Len(hashes.blocks) = PartCount(size, chunkSize)
        /\ \A k \in 1..Len(hashes.blocks) :
             hashes.blocks[k] = LeafOf(blocks, chunkSize.hi, k - 1)

\* C15: an empty file that exists is hashed to a root that is not None and
\* is the digest of the empty byte string, with no pairing above it, and is
\* planned with the chunk size of 1 MiB; its commit carries that root.
C15_EmptyFileHashedAndPlanned ==
  (pc \in {"initiate", "commit"} /\ size = Wide(0, 0)) =>
    /\ hashes.final # NoDigest
    /\ hashes.final = EmptyDigest
    /\ chunkSize = Wide(1, 0)

C15_Witness ==
  /\ pc = "commit"
  /\ files[i] = File("present", Wide(0, 0))
  /\ size = Wide(0, 0)
  /\ hashes.final = EmptyDigest
  /\ chunkSize = Wide(1, 0)
  /\ block = 0

\* C16: the calls made for a file are one initiate call, made first; then
\* upload-multipart-part calls, each for the part after the completed ones
\* (every attempt of a part comes before the first attempt of the next, the
\* range starts at block * chunkSize, no part is left out); then at most
\* one commit call, made when all ceil(size / chunkSize) parts are
\* completed, with the hex digest of the root and the size of the file;
\* nothing follows the commit call.
C16_CallOrder ==
  /\ [](\A f \in 1..Len(files) :
          /\ initiateCalls[f] <= 1
          /\ commitCalls[f] <= 1
          /\ ((partsTried[f] > 0 \/ commitCalls[f] > 0)
                => initiateCalls[f] = 1)
          /\ (commitCalls[f] > 0
                => partsTried[f] =
                     PartCount(files[f].size, ChunkSizeOf(files[f].size))))
  /\ [](pc \in {"part", "attempt", "sleep", "commit"}
          => initiateCalls[i] = 1 /\ commitCalls[i] = 0)
  /\ [][initiateCalls' # initiateCalls =>
          /\ call'.cmd = "initiate-multipart-upload"
          /\ initiateCalls[i] = 0
          /\ partsTried[i] = 0
          /\ commitCalls[i] = 0]_vars
  /\ [][(attempts' = attempts + 1 \/ partsTried' # partsTried) =>
          /\ call'.cmd = "upload-multipart-part"
          /\ initiateCalls[i] = 1
          /\ commitCalls[i] = 0
          /\ partsTried'[i] = block + 1
          /\ partsTried'[i] \in {partsTried[i], partsTried[i] + 1}
          /\ (attempts = 0 <=> partsTried'[i] = partsTried[i] + 1)
          /\ call'.range.first = TimesW(block, chunkSize)
          /\ block < PartCount(files[i].size, chunkSize)]_vars
  /\ [][commitCalls' # commitCalls =>
          /\ call'.cmd = "complete-multipart-upload"
          /\ initiateCalls[i] = 1
          /\ commitCalls[i] = 0
          /\ block = PartCount(files[i].size, chunkSize)
          /\ partsTried[i] = block
          /\ hashes.final # NoDigest
          /\ call'.checksum = HexDigest(hashes.final)
          /\ call'.archiveSize = files[i].size]_vars
  /\ [][call' # call =>
          \/ initiateCalls' # initiateCalls
          \/ attempts' = attempts + 1
          \/ commitCalls' # commitCalls]_vars

C16_Witness ==
  /\ pc = "loop"
  /\ i > 0
  /\ fileRet[i] = "True"
  /\ files[i].size = Wide(1, 1)
  /\ initiateCalls[i] = 1
  /\ partsTried[i] = 2
  /\ commitCalls[i] = 1
  /\ call.cmd = "complete-multipart-upload"
  /\ call.archiveSize = Wide(1, 1)
  /\ call.checksum =
       HexDigest(PairDigest(BlockDigest(0, MiB), BlockDigest(1, 1)))

\* C17: block counts the completed parts: it goes up by one when a part is
\* completed, after 1 to 10 attempts, and at no other step; an attempt that
\* fails and the wait after it leave offset, remain and block as they are;
\* at the commit call block = ceil(size / chunkSize), offset = size and
\* remain = 0.
C17_BlockCountsParts ==
  /\ [](pc \in {"part", "attempt", "sleep", "commit"} =>
          /\ offset = MinW(TimesW(block, chunkSize), size)
          /\ AddW(offset, remain) = size
          /\ partsTried[i] \in {block, block + 1}
          /\ (pc \in {"part", "commit"} => partsTried[i] = block)
          /\ (pc = "sleep" => partsTried[i] = block + 1))
  /\ [](pc = "commit" =>
          /\ block = PartCount(size, chunkSize)
          /\ offset = size
          /\ remain = Wide(0, 0))
  /\ [][(block' # block /\ block' # 0) =>
          /\ pc = "attempt"
          /\ pc' = "part"
          /\ block' = block + 1
          /\ attempts' \in 1..Retries]_vars
  /\ [][(pc \in {"attempt", "sleep"} /\ pc' # "part") =>
          /\ block' = block
          /\ offset' = offset
          /\ remain' = remain]_vars

C17_Witness ==
  /\ pc = "commit"
  /\ retried
  /\ size = Wide(2, 0)
  /\ block = 2
  /\ offset = size
  /\ remain = Wide(0, 0)

\* the level above nodes: node k is the digest of nodes 2k-1 and 2k of the
\* level below, or the last node of the level below if that has no partner
RefLevel(nodes) ==
  [k \in 1..((Len(nodes) + 1) \div 2) |->
     IF 2 * k <= Len(nodes)
     THEN PairDigest(nodes[2 * k - 1], nodes[2 * k])
     ELSE nodes[2 * k - 1]]

\* the levels are built until one node remains
RECURSIVE RefRoot(_)
RefRoot(nodes) ==
  IF Len(nodes) = 1 THEN nodes[1] ELSE RefRoot(RefLevel(nodes))

\* the 1 MiB block digests of a file of that size, the digest of the empty
\* string for an empty file
LeafLevel(sz) ==
  IF PosW(sz) THEN ReadBlocks(sz) ELSE << EmptyDigest >>

\* C18: the root hashFile returns is the tree hash of the 1 MiB block
\* digests of the file, built level by level (adjacent nodes paired, an odd
\* last node carried up unchanged, until one node remains), which is also
\* the top-down tree hash, and it is the same for every part size.
C18_RootIsTreeHash ==
  pc = "hashed" =>
    LET nodes == LeafLevel(size)
    IN  /\ hashes.final = RefRoot(nodes)
        /\ hashes.final = TreeHash(nodes, 1, Len(nodes))
        /\ \A k \in 0..MaxHashExp :
             hashFile(size, Wide(Pow2(k), 0)).final = hashes.final

C18_Witness ==
  /\ pc = "hashed"
  /\ size = Wide(3, 0)
  /\ chunkSize = Wide(2, 0)
  /\ hashes.final =
       PairDigest(PairDigest(BlockDigest(0, MiB), BlockDigest(1, MiB)),
                  BlockDigest(2, MiB))

\* C19: for a file that is not empty and the chunk size uploadFile derives
\* for it, hashFile returns as many leaf digests as parts are sent, so that
\* for every part index block, 0 <= block < ceil(size / chunkSize), the
\* digest hashes['blocks'][block] exists and is the tree node over the
\* bytes of that part.
C19_LeafForEveryPart ==
  (pc = "hashed" /\ PosW(size) /\ chunkSize = ChunkSizeOf(size)) =>
    LET blocks == ReadBlocks(size)
        parts == PartCount(size, chunkSize)
    IN  /\ parts >= 1
        /\ DOMAIN hashes.blocks = 1..parts
        /\ \A b \in 0..(parts - 1) :
             hashes.blocks[b + 1] = LeafOf(blocks, chunkSize.hi, b)

C19_Witness ==
  /\ pc = "hashed"
  /\ size = Wide(PartCap + 1, 0)
  /\ chunkSize = ChunkSizeOf(size)
  /\ chunkSize = Wide(2, 0)
  /\ Len(hashes.blocks) = (PartCap \div 2) + 1
  /\ hashes.blocks[1] = PairDigest(BlockDigest(0, MiB), BlockDigest(1, MiB))
  /\ hashes.blocks[Len(hashes.blocks)] = BlockDigest(PartCap, MiB)

\* C20: every time uploadFile is entered for a file of the batch it
\* eventually returns True or returns False, whatever the aws process
\* answers, given that every call and every sleep returns.
C20_UploadFileReturns ==
  \A f \in 1..MaxFiles :
    (i = f) ~> (f \in DOMAIN fileRet /\ fileRet[f] \in {"True", "False"})

====
